---- MODULE Spec2Model ----
(***************************************************************************)
(* DeepSeekMathAgent: the skill registry (SkillLoader.load_all /           *)
(* _parse_skill), the tool invoker (SkillLoader.execute_tool) and the      *)
(* orchestration loop (DrKGCAgent.run / run_stream).                       *)
(* together with the session directory of config.py.                       *)
(*                                                                         *)
(* The specifications share the variables:                                 *)
(*   SpecLoad     a skills directory is scanned by load_all;               *)
(*   SpecExec     execute_tool is applied to names, arguments and process  *)
(*                outcomes against a registry holding one capability;      *)
(*   Spec         one orchestration run (run or run_stream) of a           *)
(*                constructed agent against an arbitrary backend;          *)
(*   SpecConfig   get_session_results_dir and reset_session_dir while the  *)
(*                clock runs;                                              *)
(*   SpecSession  the loader's session identifier over the conversations   *)
(*                of one agent while the clock runs;                       *)
(*   SpecCancel   Spec with a cancellation request made during the run;    *)
(*   SpecRuns     Spec followed by a second run on the same agent;         *)
(*   SpecRace     two execute_tool calls at once on one loader;            *)
(*   SpecExit     execute_tool with processes of any exit status.          *)
(***************************************************************************)
EXTENDS Integers, Sequences, FiniteSets, TLC

VARIABLES
    \* ---- the skills directory on disk and the SkillLoader
    fs,              \* folder name -> what os.listdir's entry is
    loads,           \* number of load_all calls made so far
    scanned,         \* the order in which the last load_all listed the folders
    tools_schema,    \* SkillLoader.tools_schema: list of advertised tool definitions
    tool_configs,    \* SkillLoader.tool_configs: name -> configuration
    session_id,      \* SkillLoader.session_id
    clock,           \* datetime.now(), in whole seconds
    call,            \* the last execute_tool call: its inputs and what it did
    \* ---- the DrKGCAgent and the run in progress
    messages,        \* DrKGCAgent.messages, the transcript
    mode,            \* "none", "run" or "stream"
    pc,              \* where the run is
    step_count,      \* the local step_count
    max_steps,       \* the max_steps argument
    final_response,  \* run's local final_response
    retval,          \* what run returned
    lastEvent,       \* the event run_stream yielded last
    tool_calls,      \* the local tool_calls: the requests of the last reply
    tc_idx,          \* index (1-based) of the tool call being handled in the batch
    pending,         \* run_stream: the tool message built but not yet appended
    backend_calls,   \* number of call_deepseek calls made by this run
    tool_requests,   \* number of tool-call requests the replies of this run carried
    exit_kind,       \* how the run ended
    trace,           \* what the run did to the outside, oldest first: backend
                     \* calls, execute_tool calls, cancellation requests received
    \* ---- sessions: config.py and the conversations of one agent
    current_session_dir,  \* config._current_session_dir
    reset_log,       \* the directory in use before the last reset_session_dir, and
                     \* whether get_session_results_dir was called since
    conv,            \* the conversations of the agent: which one is going on, the
                     \* session identifiers its processes were given and when
                     \* (since set_session_id was last called), those of the
                     \* conversations before it, whether set_session_id was called
    threads          \* two execute_tool calls running at once on one loader: where
                     \* each is between the test of self.session_id and the creation
                     \* of its process, what it put in the child environment, and
                     \* how often self.session_id was assigned

loaderVars == <<fs, loads, scanned, tools_schema, tool_configs, session_id, clock, call>>
agentVars == <<messages, mode, pc, step_count, max_steps, final_response, retval,
               lastEvent, tool_calls, tc_idx, pending, backend_calls, tool_requests, exit_kind,
               trace>>
sessionVars == <<current_session_dir, reset_log, conv, threads>>
vars == <<fs, loads, scanned, tools_schema, tool_configs, session_id, clock, call,
          messages, mode, pc, step_count, max_steps, final_response, retval,
          lastEvent, tool_calls, tc_idx, pending, backend_calls, tool_requests, exit_kind,
          trace, current_session_dir, reset_log, conv, threads>>

-----------------------------------------------------------------------------
(* Bounds of the model *)

\* longest tail of a command template after the interpreter and the script path
MaxTail == 3
\* load_all is called at most this many times on one SkillLoader
MaxLoads == 2
\* largest max_steps a run is started with
MaxSteps == 2
\* the clock runs from second 0 to this second
MaxClock == 2
\* an agent holds at most this many conversations, one after the other
MaxConvs == 2

-----------------------------------------------------------------------------
(* Text: captured process output is a sequence of characters, each either  *)
(* whitespace ("w") or a visible character ("c").                          *)

\* what a process may write to standard output and to standard error
StdoutTexts == { <<>>, <<"w">>, <<"w", "c", "w">>, <<"c", "w", "c">> }
StderrTexts == { <<>>, <<"w">>, <<"w", "c", "w">> }

IsSpace(ch) == ch = "w"

RECURSIVE LStrip(_)
LStrip(t) ==
    IF t = <<>> THEN <<>>
    ELSE IF IsSpace(Head(t)) THEN LStrip(Tail(t)) ELSE t

RECURSIVE RStrip(_)
RStrip(t) ==
    IF t = <<>> THEN <<>>
    ELSE IF IsSpace(t[Len(t)]) THEN RStrip(SubSeq(t, 1, Len(t) - 1)) ELSE t

\* str.strip()
Strip(t) == RStrip(LStrip(t))

-----------------------------------------------------------------------------
(* Finite maps (Python dicts) *)

EmptyMap == [x \in {} |-> TRUE]

\* d[k] = v
Bind(d, k, v) == [x \in (DOMAIN d) \cup {k} |-> IF x = k THEN v ELSE d[x]]

-----------------------------------------------------------------------------
(* Command templates.  template.split() gives the parts; a part is a flag  *)
(* (it starts with "--"), a placeholder (with its quotes stripped it       *)
(* matches \{(\w+)\}) or any other word.                                   *)

Flag(n) == [kind |-> "flag", name |-> n]
Placeholder(n) == [kind |-> "ph", name |-> n]
Word(n) == [kind |-> "word", name |-> n]

ParamNames == {"x", "y"}
TailTokens == {Flag("a"), Flag("b"), Placeholder("x")}

RECURSIVE SeqsUpTo(_, _)
SeqsUpTo(S, n) ==
    IF n = 0 THEN { <<>> }
    ELSE LET shorter == SeqsUpTo(S, n - 1)
         IN  shorter \cup { Append(s, e) : s \in { q \in shorter : Len(q) = n - 1 }, e \in S }

\* every template the registry may hold: no Command section (""), an
\* interpreter alone, or interpreter, script and a tail of flags and placeholders
Templates ==
    { <<>>, <<Word("python")>> }
    \cup { <<Word("python"), Word("script.py")>> \o tl : tl \in SeqsUpTo(TailTokens, MaxTail) }

\* parts[i].startswith('--')
StartsWithDashes(tok) == tok.kind = "flag"

\* re.match(r'\{(\w+)\}', parts[i + 1].strip("'\"")) succeeds
MatchesPlaceholder(tok) == tok.kind = "ph"

\* the while loop over parts that fills arg_mapping; i is 1-based, so the
\* code's i = 2 is 3 here
RECURSIVE ParseArgMapping(_, _, _)
ParseArgMapping(parts, i, mapping) ==
    IF i > Len(parts) THEN mapping
    ELSE IF StartsWithDashes(parts[i])
         THEN IF i + 1 <= Len(parts)
              THEN ParseArgMapping(parts, i + 2,
                       IF MatchesPlaceholder(parts[i + 1])
                       THEN Bind(mapping, parts[i + 1].name, parts[i])
                       ELSE mapping)
              ELSE ParseArgMapping(parts, i + 1, mapping)
         ELSE ParseArgMapping(parts, i + 1, mapping)

ArgMapping(parts) == ParseArgMapping(parts, 3, EmptyMap)

\* arg_mapping.get(key, f"--{key}")
ArgFlag(mapping, key) == IF key \in DOMAIN mapping THEN mapping[key] ELSE Flag(key)

-----------------------------------------------------------------------------
(* Arguments of a tool call.  json.loads of the request's argument text    *)
(* gives either an object (an insertion-ordered dict, here the sequence of *)
(* its items) or some other JSON value (a list, a number, ...), which has  *)
(* no .items().                                                            *)

NonMap == [is_map |-> FALSE, items |-> <<>>]
MapOf(items) == [is_map |-> TRUE, items |-> items]

\* a scalar value and a composite (list/dict) value
ArgValues == { [composite |-> FALSE, v |-> "1"], [composite |-> TRUE, v |-> "1"] }

Item(k, v) == [key |-> k, val |-> v]

ArgItems ==
    { <<>> }
    \cup { <<Item(k, v)>> : k \in ParamNames, v \in ArgValues }
    \cup { p \in { <<Item(k1, v1), Item(k2, v2)>> :
                      k1 \in ParamNames, k2 \in ParamNames, v1 \in ArgValues, v2 \in ArgValues } :
             p[1].key # p[2].key }

ArgPayloads == { MapOf(it) : it \in ArgItems } \cup { NonMap }

\* json.dumps(val, ensure_ascii=False) for a list or dict, str(val) otherwise:
\* one token of the argument vector either way
SerializeValue(val) ==
    [kind |-> "value", enc |-> IF val.composite THEN "json" ELSE "str", v |-> val.v]

\* args_list: one (key, text) pair per item, in the dict's order
RECURSIVE BuildArgsList(_)
BuildArgsList(items) ==
    IF items = <<>> THEN <<>>
    ELSE <<Item(Head(items).key, SerializeValue(Head(items).val))>> \o BuildArgsList(Tail(items))

\* the final for loop: flag and value of every pair appended to cmd_list
RECURSIVE AppendArgs(_, _, _)
AppendArgs(cmd_list, args_list, mapping) ==
    IF args_list = <<>> THEN cmd_list
    ELSE AppendArgs(cmd_list \o <<ArgFlag(mapping, Head(args_list).key), Head(args_list).val>>,
                    Tail(args_list), mapping)

\* cmd_list = [sys.executable, script_path] + the arguments
BuildCmdList(parts, args_list) ==
    AppendArgs(<<Word("sys.executable"), parts[2]>>, args_list, ArgMapping(parts))

-----------------------------------------------------------------------------
(* Session identifiers.  None is the empty tuple; the empty string would   *)
(* be falsy in the same way.                                               *)

NoSession == <<>>
\* datetime.now().strftime("%Y%m%d_%H%M%S")
Stamp(clk) == <<"T", clk>>
ExplicitSessions == { <<"S", 1>> }

\* faulty variant: every invocation makes a new identifier from the clock
EnsureSession_always(session, clk) == Stamp(clk)

\* if not self.session_id: self.session_id = <timestamp>
EnsureSession(session, clk) == IF session = NoSession THEN Stamp(clk) ELSE session

-----------------------------------------------------------------------------
(* Results.  execute_tool returns a string: either json.dumps of an error  *)
(* object or the output of the process.                                    *)

ErrorResult(msg) == [kind |-> "error", message |-> msg, has_debug |-> FALSE, debug |-> <<>>]
ErrorWithDebug(msg, dbg) == [kind |-> "error", message |-> msg, has_debug |-> TRUE, debug |-> dbg]
OutputResult(text) == [kind |-> "output", message |-> <<>>, has_debug |-> FALSE, debug |-> text]
NoResult == [kind |-> "none", message |-> <<>>, has_debug |-> FALSE, debug |-> <<>>]

\* what a spawned process does: subprocess.run raises (missing interpreter,
\* permission denied, ...), or it ends with some stdout and stderr and an
\* exit status (0 unless said otherwise)
SpawnFailure == [exc |-> TRUE, stdout |-> <<>>, stderr |-> <<>>, returncode |-> 0]
Completed(out, err) == [exc |-> FALSE, stdout |-> out, stderr |-> err, returncode |-> 0]

\* the exit statuses of a process: success and failure
ExitStatuses == {0, 1}
WithStatus(outcome, status) == [outcome EXCEPT !.returncode = status]
Outcomes == { SpawnFailure } \cup { Completed(o, e) : o \in StdoutTexts, e \in StderrTexts }

\* what execute_tool does on one call
Effect(raised, result, spawned, argv, env, session) ==
    [raised |-> raised, result |-> result, spawned |-> spawned, argv |-> argv,
     env_session |-> env, session |-> session]

\* faulty variant: the lookup is skipped and the name is run as a script
NotFound_spawns(name, session) ==
    Effect(FALSE, ErrorResult(<<"script output is empty">>), TRUE,
           <<Word("sys.executable"), Word(name)>>, session, session)

\* name not in self.tool_configs
NotFound(name, session) ==
    Effect(FALSE, ErrorResult(<<"tool not found", name>>), FALSE, <<>>, NoSession, session)

\* len(parts) < 2
InvalidTemplate(session) ==
    Effect(FALSE, ErrorResult(<<"invalid command template">>), FALSE, <<>>, NoSession, session)

\* args_dict.items() on a value that is no dict: AttributeError, outside the try
ItemsRaises(session) ==
    Effect(TRUE, NoResult, FALSE, <<>>, NoSession, session)

\* faulty variant: only leading whitespace is removed
StrippedOutput_lstrip(stdout) == LStrip(stdout)

\* result.stdout.strip()
StrippedOutput(stdout) == Strip(stdout)

\* faulty variant: the test for empty output comes first, so the diagnostics are lost
ProcessResult_emptyFirst(stdout, stderr) ==
    IF StrippedOutput(stdout) = <<>>
    THEN ErrorResult(<<"script output is empty">>)
    ELSE OutputResult(StrippedOutput(stdout))

\* the lines after subprocess.run returned
ProcessResult(stdout, stderr) ==
    LET output == StrippedOutput(stdout)
    IN  IF output = <<>> /\ stderr # <<>>
        THEN ErrorWithDebug(<<"no output">>, stderr)
        ELSE IF output = <<>>
             THEN ErrorResult(<<"script output is empty">>)
             ELSE OutputResult(output)

\* faulty variant: a process that exits with a status other than 0 has failed
ResultOf_checksStatus(outcome) ==
    IF outcome.returncode # 0
    THEN ErrorWithDebug(<<"exit status">>, outcome.stderr)
    ELSE ProcessResult(outcome.stdout, outcome.stderr)

\* of the CompletedProcess only stdout and stderr are read
ResultOf(outcome) == ProcessResult(outcome.stdout, outcome.stderr)

\* the try block: the session identifier is established, then the process is
\* created; an exception becomes an error result
Invoke(cmd_list, outcome, session, clk) ==
    LET sid == EnsureSession(session, clk)
    IN  IF outcome.exc
        THEN Effect(FALSE, ErrorResult(<<"execution exception", "spawn failed">>),
                    FALSE, cmd_list, sid, sid)
        ELSE Effect(FALSE, ResultOf(outcome), TRUE, cmd_list, sid, sid)

\* SkillLoader.execute_tool(name, args_dict)
ExecuteTool(name, args, outcome, configs, session, clk) ==
    IF name \notin DOMAIN configs THEN NotFound(name, session)
    ELSE IF ~args.is_map THEN ItemsRaises(session)
    ELSE LET parts == configs[name].command_template
         IN  IF Len(parts) < 2 THEN InvalidTemplate(session)
             ELSE Invoke(BuildCmdList(parts, BuildArgsList(args.items)), outcome, session, clk)

\* faulty variant: the configuration is taken out of the registry when it is read
ConfigsAfterCall_consumes(configs, name) ==
    [k \in DOMAIN configs \ {name} |-> configs[k]]

\* config = self.tool_configs[name]; template = config["command_template"];
\* cwd = config.get("cwd", "."): the registry is read, never written
ConfigsAfterCall(configs, name) == configs

\* SkillLoader.set_session_id(session_id=None)
SetSessionId(given, clk) == IF given # NoSession THEN given ELSE Stamp(clk)

-----------------------------------------------------------------------------
(* The skills directory and load_all *)

Folders == {"omics_dea", "kg_pathfinder", "causal_reasoner"}

\* what an entry of the skills directory can be:
\*   "file"        not a directory
\*   "no_md"       a directory without SKILL.md
\*   "unreadable"  SKILL.md exists and reading it raises (permissions, bad UTF-8)
\*   "no_command"  SKILL.md is read, it has no Command section
\*   "ok"          SKILL.md is read and has a Command line
EntryKinds == {"file", "no_md", "unreadable", "no_command", "ok"}

GoodTemplate == <<Word("python"), Word("script.py"), Flag("a"), Placeholder("x")>>

\* os.path.isdir(folder_path) and os.path.exists(md_path)
HasDescriptor(entry) == entry \in {"unreadable", "no_command", "ok"}

\* open(md_path).read() raises
ReadRaises(entry) == entry = "unreadable"

\* cmd_match.group(1).strip() if cmd_match else ""
CommandTemplate(entry) == IF entry = "ok" THEN GoodTemplate ELSE <<>>

ToolDef(folder) == [type |-> "function", name |-> folder]
ToolConfig(folder, template) == [command_template |-> template, cwd |-> folder]

Registry(schema, configs) == [schema |-> schema, configs |-> configs]

\* faulty variant: the schema entry is appended before the file is read
ParseSkill_partial(folder, entry, reg) ==
    IF ReadRaises(entry)
    THEN [raised |-> TRUE, reg |-> Registry(Append(reg.schema, ToolDef(folder)), reg.configs)]
    ELSE [raised |-> FALSE,
          reg |-> Registry(Append(reg.schema, ToolDef(folder)),
                           Bind(reg.configs, folder, ToolConfig(folder, CommandTemplate(entry))))]

\* SkillLoader._parse_skill: the file is read and matched first; the two
\* registry writes are its last statements
ParseSkill(folder, entry, reg) ==
    IF ReadRaises(entry)
    THEN [raised |-> TRUE, reg |-> reg]
    ELSE [raised |-> FALSE,
          reg |-> Registry(Append(reg.schema, ToolDef(folder)),
                           Bind(reg.configs, folder, ToolConfig(folder, CommandTemplate(entry))))]

\* the body of load_all's for loop: try _parse_skill, except Exception: log
LoadFolder(folder, entry, reg) ==
    IF HasDescriptor(entry) THEN ParseSkill(folder, entry, reg).reg ELSE reg

RECURSIVE LoadFolders(_, _, _, _)
LoadFolders(order, i, entries, reg) ==
    IF i > Len(order) THEN reg
    ELSE LoadFolders(order, i + 1, entries, LoadFolder(order[i], entries[order[i]], reg))

\* SkillLoader.load_all with os.listdir returning the folders in `order`
LoadAll(order, dir, reg) ==
    IF ~dir.exists THEN reg ELSE LoadFolders(order, 1, dir.entries, reg)

\* the orders os.listdir may return the entries in
ScanOrders ==
    { o \in [1..Cardinality(Folders) -> Folders] : \A i, j \in DOMAIN o : i # j => o[i] # o[j] }

Directories ==
    { [exists |-> TRUE, entries |-> e] : e \in [Folders -> EntryKinds] }
    \cup { [exists |-> FALSE, entries |-> [f \in Folders |-> "no_md"]] }

-----------------------------------------------------------------------------
(* State of a constructed agent, and of the parts a specification leaves   *)
(* alone                                                                   *)

\* the record of an execute_tool call: "none" before any call, "waiting" while
\* subprocess.run has not returned, "done" once execute_tool has ended
NoCall ==
    [phase |-> "none", name |-> "", args |-> NonMap, outcome |-> SpawnFailure,
     session_before |-> NoSession, session_after |-> NoSession, raised |-> FALSE,
     result |-> NoResult, spawned |-> FALSE, argv |-> <<>>, env_session |-> NoSession]

NoEvent == [type |-> "none"]
NoMessage == [role |-> "none"]
NoValue == "no value"

SystemMessage == [role |-> "system", content |-> "system prompt"]

\* DrKGCAgent.reset_conversation
ResetConversation == <<SystemMessage>>

AgentIdle ==
    /\ messages = ResetConversation
    /\ mode = "none"
    /\ pc = "idle"
    /\ step_count = 0
    /\ max_steps = 0
    /\ final_response = ""
    /\ retval = NoValue
    /\ lastEvent = NoEvent
    /\ tool_calls = <<>>
    /\ tc_idx = 0
    /\ pending = NoMessage
    /\ backend_calls = 0
    /\ tool_requests = 0
    /\ exit_kind = "none"
    /\ trace = <<>>

\* config._current_session_dir = None
NoDir == <<>>

\* no reset_session_dir yet
NoReset == [state |-> "none", before |-> NoDir]

\* the first conversation, before any tool was invoked
FirstConversation ==
    [number |-> 1, injected |-> {}, spawned_at |-> {}, earlier |-> {}, deliberate |-> FALSE]

\* the callers of execute_tool that may run at the same time
Callers == {1, 2}

\* no call has reached the test of self.session_id
NoThreads ==
    [at |-> [t \in Callers |-> "start"], env |-> [t \in Callers |-> NoSession], writes |-> 0]

SessionIdle ==
    /\ current_session_dir = NoDir
    /\ reset_log = NoReset
    /\ conv = FirstConversation
    /\ threads = NoThreads

-----------------------------------------------------------------------------
(* SpecLoad: load_all over a skills directory *)

InitLoad ==
    /\ fs \in Directories
    /\ loads = 0
    /\ scanned = <<>>
    /\ tools_schema = <<>>
    /\ tool_configs = EmptyMap
    /\ session_id = NoSession
    /\ clock = 0
    /\ call = NoCall
    /\ AgentIdle
    /\ SessionIdle

DoLoadAll ==
    /\ loads < MaxLoads
    /\ \E order \in ScanOrders :
         LET reg == LoadAll(order, fs, Registry(tools_schema, tool_configs))
         IN  /\ tools_schema' = reg.schema
             /\ tool_configs' = reg.configs
             /\ scanned' = IF fs.exists THEN order ELSE <<>>
    /\ loads' = loads + 1
    /\ UNCHANGED <<fs, session_id, clock, call>>
    /\ UNCHANGED agentVars
    /\ UNCHANGED sessionVars

NextLoad == DoLoadAll

SpecLoad == InitLoad /\ [][NextLoad]_vars

-----------------------------------------------------------------------------
(* SpecExec: execute_tool and set_session_id on a loader whose registry    *)
(* holds one capability                                                    *)

KnownTool == "omics_dea"
ToolNames == {KnownTool, "ghost"}

InitExec ==
    /\ fs = [exists |-> TRUE, entries |-> [f \in Folders |-> IF f = KnownTool THEN "ok" ELSE "file"]]
    /\ loads = 1
    /\ scanned = <<>>
    /\ tools_schema = <<ToolDef(KnownTool)>>
    /\ \E t \in Templates : tool_configs = Bind(EmptyMap, KnownTool, ToolConfig(KnownTool, t))
    /\ session_id = NoSession
    /\ clock = 0
    /\ call = NoCall
    /\ AgentIdle
    /\ SessionIdle

\* execute_tool gets as far as subprocess.run
ReachesSpawn(name, args, configs) ==
    /\ name \in DOMAIN configs
    /\ args.is_map
    /\ Len(configs[name].command_template) >= 2

CallRecord(phase, name, args, outcome, before, e) ==
    [phase |-> phase, name |-> name, args |-> args, outcome |-> outcome,
     session_before |-> before, session_after |-> e.session, raised |-> e.raised,
     result |-> e.result, spawned |-> e.spawned, argv |-> e.argv,
     env_session |-> e.env_session]

\* inside subprocess.run: the argument vector and the environment are fixed,
\* nothing has been returned yet
Waiting(e) == Effect(FALSE, NoResult, FALSE, e.argv, e.env_session, e.session)

\* execute_tool is called: it ends at once (unknown name, arguments that are
\* no map, template too short) or builds the argument vector, establishes the
\* session identifier and waits in subprocess.run
DoExecuteTool ==
    /\ call.phase # "waiting"
    /\ \E name \in ToolNames, args \in ArgPayloads :
        LET e == ExecuteTool(name, args, SpawnFailure, tool_configs, session_id, clock)
        IN  /\ call' = IF ReachesSpawn(name, args, tool_configs)
                        THEN CallRecord("waiting", name, args, SpawnFailure, session_id, Waiting(e))
                        ELSE CallRecord("done", name, args, SpawnFailure, session_id, e)
            /\ session_id' = e.session
            /\ tool_configs' = ConfigsAfterCall(tool_configs, name)
    /\ UNCHANGED <<fs, loads, scanned, tools_schema, clock>>
    /\ UNCHANGED agentVars
    /\ UNCHANGED sessionVars

\* subprocess.run returns or raises, and execute_tool ends
ProcessEnds ==
    /\ call.phase = "waiting"
    /\ \E outcome \in Outcomes :
        LET e == ExecuteTool(call.name, call.args, outcome, tool_configs,
                             call.session_before, clock)
        IN  /\ call' = CallRecord("done", call.name, call.args, outcome, call.session_before, e)
            /\ session_id' = e.session
    /\ UNCHANGED <<fs, loads, scanned, tools_schema, tool_configs, clock>>
    /\ UNCHANGED agentVars
    /\ UNCHANGED sessionVars

DoSetSessionId ==
    /\ call.phase # "waiting"
    /\ \E given \in ExplicitSessions \cup {NoSession} :
        session_id' = SetSessionId(given, clock)
    /\ UNCHANGED <<fs, loads, scanned, tools_schema, tool_configs, clock, call>>
    /\ UNCHANGED agentVars
    /\ UNCHANGED sessionVars

NextExec == DoExecuteTool \/ ProcessEnds \/ DoSetSessionId

SpecExec == InitExec /\ [][NextExec]_vars

-----------------------------------------------------------------------------
(* The reasoning backend and the transcript *)

\* content of a reply: "" stands for a missing or empty content (None and ""
\* are both falsy and the loop tests content only for truth)
Contents == {"", "A"}

\* number of tool-call requests one reply may carry
BatchSizes == {0, 1, 2}

\* argument texts are "{x:1}" (a JSON object), "[1]" (a JSON list) and "{x:"
\* (not JSON)

\* json.loads(args_str)
ParseJson(text) ==
    CASE text = "{x:1}" -> [ok |-> TRUE, value |-> MapOf(<<Item("x", [composite |-> FALSE, v |-> "1"])>>)]
      [] text = "[1]"   -> [ok |-> TRUE, value |-> NonMap]
      [] OTHER          -> [ok |-> FALSE, value |-> NonMap]

\* the requests a reply is built from: a call that succeeds, a call of a
\* capability that does not exist, a call whose arguments are no object, a
\* call whose arguments do not parse
RequestShapes ==
    { [name |-> KnownTool, arguments |-> "{x:1}"],
      [name |-> "ghost", arguments |-> "{x:1}"],
      [name |-> KnownTool, arguments |-> "[1]"],
      [name |-> KnownTool, arguments |-> "{x:"] }

\* the backend gives every request of a run its own id
CallId(step, i) == <<"call", step, i>>

\* tc['id'], tc['function']['name'], tc['function']['arguments']
Request(id, shape) == [id |-> id, name |-> shape.name, arguments |-> shape.arguments]

Batches(step) ==
    UNION { { [i \in 1..n |-> Request(CallId(step, i), sh[i])] : sh \in [1..n -> RequestShapes] } :
            n \in BatchSizes }

\* a tool-call entry of a reply that has an id but no 'function' member
NoFunction == "<no function>"
MalformedRequest(id) == [id |-> id, name |-> NoFunction, arguments |-> ""]

\* tc['function'] can be read
HasFunction(tc) == tc.name # NoFunction

\* the backend is a remote service and the loop takes tool_calls from its
\* response as it comes: a reply may carry an entry without 'function'
MalformedBatches(step) == { <<MalformedRequest(CallId(step, 1))>> }

\* call_deepseek returns None (network error, timeout, HTTP error) ...
BackendFailure == [ok |-> FALSE, content |-> "", tool_calls |-> <<>>]

\* ... or the response, of which the loop reads choices[0].message
BackendReplies(step) ==
    { BackendFailure }
    \cup { [ok |-> TRUE, content |-> c, tool_calls |-> b] :
             c \in Contents, b \in Batches(step) \cup MalformedBatches(step) }

\* faulty variant: a failed call is taken for a reply
BackendFailed_never(reply) == FALSE

\* if not response_data
BackendFailed(reply) == ~reply.ok

\* entries of the trace; a backend call is written down with what it returned
BackendEntry(reply) == [op |-> "backend", ok |-> reply.ok, id |-> <<>>, reply |-> reply]
ToolEntry(tc) == [op |-> "execute_tool", ok |-> TRUE, id |-> tc.id, reply |-> BackendFailure]
CancelEntry == [op |-> "cancel", ok |-> TRUE, id |-> <<>>, reply |-> BackendFailure]

\* what the process of a tool called during a run does
RunOutcomes == { Completed(<<"c", "w", "c">>, <<>>) }

UserMessage == [role |-> "user", content |-> "query"]
AssistantMessage(reply) ==
    [role |-> "assistant", content |-> reply.content, tool_calls |-> reply.tool_calls]
ToolMessage(tc, content) ==
    [role |-> "tool", tool_call_id |-> tc.id, name |-> tc.name, content |-> content]

\* json.dumps({"status": "error", "message": str(e)})
ExceptionResult(text) == ErrorResult(<<"exception", text>>)

\* faulty variant: a run starts from a new transcript
StartTranscript_fresh(msgs) == <<SystemMessage, UserMessage>>

\* self.messages.append({"role": "user", "content": user_query})
StartTranscript(msgs) == Append(msgs, UserMessage)

\* faulty variant: a reply without content is not recorded
AppendReply_skipEmpty(msgs, reply) ==
    IF reply.content = "" THEN msgs ELSE Append(msgs, AssistantMessage(reply))

\* self.messages.append(msg)
AppendReply(msgs, reply) == Append(msgs, AssistantMessage(reply))

\* if content: final_response = content
Accumulate(final, content) == IF content # "" THEN content ELSE final

\* faulty variant: the loop runs once more
LoopContinues_offByOne(step, limit) == step <= limit

\* while step_count < max_steps
LoopContinues(step, limit) == step < limit

\* faulty variant: the batch is walked from its end
NextToolCall_reversed(tcs, i) == tcs[Len(tcs) - i + 1]

\* faulty variant: every pass of the for loop handles the first request
NextToolCall_first(tcs, i) == tcs[1]

\* for tc in tool_calls
NextToolCall(tcs, i) == tcs[i]

\* faulty variant: a call that ended in an error result ends the batch
BatchContinues_untilError(idx, n, content) == content.kind # "error" /\ idx < n

\* faulty variant: the for loop stops one request short
BatchContinues_skipLast(idx, n, content) == idx + 1 < n

\* for tc in tool_calls: the loop goes on to the next request whatever the
\* content of the tool message just built
BatchContinues(idx, n, content) == idx < n

\* the try/except around one tool call: the arguments are parsed, the tool is
\* executed; any exception becomes an error content
HandleToolCall(tc, outcome, configs, session, clk) ==
    LET parsed == ParseJson(tc.arguments)
        e == ExecuteTool(tc.name, parsed.value, outcome, configs, session, clk)
    IN  IF ~parsed.ok
        THEN [ok |-> FALSE, content |-> ExceptionResult("JSONDecodeError"),
              session |-> session, invoked |-> FALSE, env_session |-> NoSession]
        ELSE IF e.raised
             THEN [ok |-> FALSE, content |-> ExceptionResult("AttributeError"),
                   session |-> e.session, invoked |-> TRUE, env_session |-> e.env_session]
             ELSE [ok |-> TRUE, content |-> e.result,
                   session |-> e.session, invoked |-> TRUE, env_session |-> e.env_session]

\* faulty variant: run_stream appends no tool message after a tool_error event
AppendPending_dropErrors(msgs, msg) ==
    IF msg.content.kind = "error" THEN msgs ELSE Append(msgs, msg)

\* run_stream: self.messages.append({"role": "tool", ...}) after the event
AppendPending(msgs, msg) == Append(msgs, msg)

\* run as a function of what the backend returns: the for loop over the
\* requests of one reply, from the i-th on
RECURSIVE RunBatch(_, _, _, _)
RunBatch(msgs, tcs, i, configs) ==
    IF i > Len(tcs) THEN [messages |-> msgs, tools |-> 0]
    ELSE LET tc == NextToolCall(tcs, i)
             h == HandleToolCall(tc, CHOOSE o \in RunOutcomes : TRUE, configs, NoSession, 0)
             rest == RunBatch(Append(msgs, ToolMessage(tc, h.content)), tcs, i + 1, configs)
         IN  [messages |-> rest.messages, tools |-> rest.tools + (IF h.invoked THEN 1 ELSE 0)]

\* ... and the while loop, from step_count = step on: the transcript run
\* leaves, the number of backend calls and of execute_tool calls it makes
RECURSIVE RunLoop(_, _, _, _, _)
RunLoop(msgs, replies, step, limit, configs) ==
    IF ~LoopContinues(step, limit) \/ replies = <<>>
    THEN [messages |-> msgs, calls |-> 0, tools |-> 0]
    ELSE LET reply == Head(replies)
         IN  IF BackendFailed(reply)
             THEN [messages |-> msgs, calls |-> 1, tools |-> 0]
             ELSE IF reply.tool_calls = <<>>
                  THEN [messages |-> AppendReply(msgs, reply), calls |-> 1, tools |-> 0]
                  ELSE LET batch == RunBatch(AppendReply(msgs, reply), reply.tool_calls, 1, configs)
                           rest == RunLoop(batch.messages, Tail(replies), step + 1, limit, configs)
                       IN  [messages |-> rest.messages, calls |-> rest.calls + 1,
                            tools |-> rest.tools + batch.tools]

\* the events of run_stream
StartEvent == [type |-> "start", query |-> "query"]
ThinkingEvent(step) == [type |-> "thinking", step |-> step]
ErrorEvent == [type |-> "error"]
ThoughtEvent(content, step) == [type |-> "thought", content |-> content, step |-> step]
ToolCallEvent(tc, step) ==
    [type |-> "tool_call", tool |-> tc.name, arguments |-> tc.arguments, step |-> step]
ToolResultEvent(tc, h, step) ==
    [type |-> IF h.ok THEN "tool_result" ELSE "tool_error", tool |-> tc.name,
     result |-> h.content, step |-> step]
CompleteEvent(content, step) ==
    [type |-> "complete", final_answer |-> content, total_steps |-> step]

-----------------------------------------------------------------------------
(* Spec: one run of a constructed agent.  DrKGCAgent.__init__ has loaded   *)
(* the registry and reset the conversation.                                *)

Init ==
    /\ fs = [exists |-> TRUE, entries |-> [f \in Folders |-> IF f = KnownTool THEN "ok" ELSE "file"]]
    /\ loads = 1
    /\ scanned = <<>>
    /\ tools_schema = <<ToolDef(KnownTool)>>
    /\ tool_configs = Bind(EmptyMap, KnownTool, ToolConfig(KnownTool, GoodTemplate))
    /\ session_id = NoSession
    /\ clock = 0
    /\ call = NoCall
    /\ AgentIdle
    /\ SessionIdle

LoaderKept ==
    UNCHANGED <<fs, loads, scanned, tools_schema, tool_configs, clock, call,
                current_session_dir, reset_log, conv, threads>>

\* run(user_query, max_steps) or the first next() of run_stream(user_query,
\* max_steps): the user message is appended, the counters are set, run_stream
\* yields its start event
StartRun ==
    /\ pc = "idle"
    /\ \E md \in {"run", "stream"}, ms \in 0..MaxSteps :
         /\ mode' = md
         /\ max_steps' = ms
         /\ lastEvent' = IF md = "stream" THEN StartEvent ELSE lastEvent
    /\ messages' = StartTranscript(messages)
    /\ step_count' = 0
    /\ final_response' = ""
    /\ pc' = "top"
    /\ UNCHANGED <<retval, tool_calls, tc_idx, pending, backend_calls, tool_requests, exit_kind,
                   trace>>
    /\ LoaderKept /\ UNCHANGED session_id

\* run: one pass of the while loop up to the for loop: the step is counted,
\* the backend is called, its reply is appended
RunThink ==
    /\ pc = "top" /\ mode = "run"
    /\ LoopContinues(step_count, max_steps)
    /\ step_count' = step_count + 1
    /\ backend_calls' = backend_calls + 1
    /\ \E reply \in BackendReplies(step_count + 1) :
       /\ trace' = Append(trace, BackendEntry(reply))
       /\ IF BackendFailed(reply)
         THEN /\ pc' = "returned"
              /\ retval' = final_response
              /\ exit_kind' = "error"
              /\ UNCHANGED <<messages, final_response, tool_calls, tc_idx, tool_requests>>
         ELSE /\ messages' = AppendReply(messages, reply)
              /\ final_response' = Accumulate(final_response, reply.content)
              /\ tool_calls' = reply.tool_calls
              /\ tool_requests' = tool_requests + Len(reply.tool_calls)
              /\ IF reply.tool_calls # <<>>
                 THEN /\ pc' = "tool"
                      /\ tc_idx' = 1
                      /\ UNCHANGED <<retval, exit_kind>>
                 ELSE /\ pc' = "returned"
                      /\ retval' = Accumulate(final_response, reply.content)
                      /\ exit_kind' = "done"
                      /\ UNCHANGED tc_idx
    /\ UNCHANGED <<mode, max_steps, lastEvent, pending>>
    /\ LoaderKept /\ UNCHANGED session_id

\* run: the while condition fails and final_response is returned
RunStepLimit ==
    /\ pc = "top" /\ mode = "run"
    /\ ~LoopContinues(step_count, max_steps)
    /\ pc' = "returned"
    /\ retval' = final_response
    /\ exit_kind' = "limit"
    /\ UNCHANGED <<messages, mode, step_count, max_steps, final_response, lastEvent,
                   tool_calls, tc_idx, pending, backend_calls, tool_requests, trace>>
    /\ LoaderKept /\ UNCHANGED session_id

\* run: one pass of the for loop.  The name, the argument text and the id are
\* read from the entry before the try block: an entry without 'function'
\* raises KeyError out of run.  Otherwise the tool call is handled and its
\* tool message appended; after the last one the loop continues
RunTool ==
    /\ pc = "tool" /\ mode = "run"
    /\ LET tc == NextToolCall(tool_calls, tc_idx)
       IN  IF ~HasFunction(tc)
           THEN /\ pc' = "raised"
                /\ exit_kind' = "raised"
                /\ UNCHANGED <<messages, session_id, tc_idx, trace>>
           ELSE /\ \E outcome \in RunOutcomes :
                     LET h == HandleToolCall(tc, outcome, tool_configs, session_id, clock)
                     IN  /\ messages' = Append(messages, ToolMessage(tc, h.content))
                         /\ session_id' = h.session
                         /\ trace' = IF h.invoked THEN Append(trace, ToolEntry(tc)) ELSE trace
                         /\ IF BatchContinues(tc_idx, Len(tool_calls), h.content)
                            THEN tc_idx' = tc_idx + 1 /\ pc' = "tool"
                            ELSE tc_idx' = 0 /\ pc' = "top"
                /\ UNCHANGED exit_kind
    /\ UNCHANGED <<mode, step_count, max_steps, final_response, retval, lastEvent,
                   tool_calls, pending, backend_calls, tool_requests>>
    /\ LoaderKept

\* run_stream, from the while condition to the next yield: the step is counted
\* and "thinking" is yielded, or the generator ends
StreamLoopHead ==
    IF LoopContinues(step_count, max_steps)
    THEN /\ step_count' = step_count + 1
         /\ lastEvent' = ThinkingEvent(step_count + 1)
         /\ pc' = "think"
         /\ UNCHANGED exit_kind
    ELSE /\ pc' = "returned"
         /\ exit_kind' = "limit"
         /\ UNCHANGED <<step_count, lastEvent>>

\* run_stream, from the head of the for loop to the next yield: the name, the
\* argument text and the id are read from the entry (an entry without
\* 'function' raises KeyError out of the generator) and "tool_call" is yielded
StreamYieldToolCall(tcs, i) ==
    IF HasFunction(NextToolCall(tcs, i))
    THEN /\ lastEvent' = ToolCallEvent(NextToolCall(tcs, i), step_count)
         /\ pc' = "exec"
         /\ UNCHANGED exit_kind
    ELSE /\ pc' = "raised"
         /\ exit_kind' = "raised"
         /\ UNCHANGED lastEvent

\* run_stream, from `if tool_calls` to the next yield: the first "tool_call"
\* event, or "complete"
StreamDispatch(content, tcs) ==
    IF tcs # <<>>
    THEN /\ tc_idx' = 1
         /\ StreamYieldToolCall(tcs, 1)
    ELSE /\ lastEvent' = CompleteEvent(content, step_count)
         /\ pc' = "complete"
         /\ exit_kind' = "done"
         /\ UNCHANGED tc_idx

\* run_stream resumed after "start"
StreamTop ==
    /\ pc = "top" /\ mode = "stream"
    /\ StreamLoopHead
    /\ UNCHANGED <<messages, mode, max_steps, final_response, retval, tool_calls, tc_idx,
                   pending, backend_calls, tool_requests, trace>>
    /\ LoaderKept /\ UNCHANGED session_id

\* run_stream resumed after "thinking": the backend is called; on failure
\* "error" is yielded; otherwise the reply is appended and "thought" (when
\* there is content), the first "tool_call" or "complete" is yielded
StreamThink ==
    /\ pc = "think" /\ mode = "stream"
    /\ backend_calls' = backend_calls + 1
    /\ \E reply \in BackendReplies(step_count) :
       /\ trace' = Append(trace, BackendEntry(reply))
       /\ IF BackendFailed(reply)
         THEN /\ lastEvent' = ErrorEvent
              /\ pc' = "errored"
              /\ exit_kind' = "error"
              /\ UNCHANGED <<messages, tool_calls, tc_idx, tool_requests>>
         ELSE /\ messages' = AppendReply(messages, reply)
              /\ tool_calls' = reply.tool_calls
              /\ tool_requests' = tool_requests + Len(reply.tool_calls)
              /\ IF reply.content # ""
                 THEN /\ lastEvent' = ThoughtEvent(reply.content, step_count)
                      /\ pc' = "thought"
                      /\ UNCHANGED <<tc_idx, exit_kind>>
                 ELSE StreamDispatch(reply.content, reply.tool_calls)
    /\ UNCHANGED <<mode, step_count, max_steps, final_response, retval, pending>>
    /\ LoaderKept /\ UNCHANGED session_id

\* run_stream resumed after "thought"
StreamAfterThought ==
    /\ pc = "thought" /\ mode = "stream"
    /\ StreamDispatch(messages[Len(messages)].content, tool_calls)
    /\ UNCHANGED <<messages, mode, step_count, max_steps, final_response, retval, tool_calls,
                   pending, backend_calls, tool_requests, trace>>
    /\ LoaderKept /\ UNCHANGED session_id

\* run_stream resumed after "tool_call": the call is handled and "tool_result"
\* or "tool_error" is yielded; the tool message is built, not yet appended
StreamExec ==
    /\ pc = "exec" /\ mode = "stream"
    /\ \E outcome \in RunOutcomes :
         LET tc == NextToolCall(tool_calls, tc_idx)
             h == HandleToolCall(tc, outcome, tool_configs, session_id, clock)
         IN  /\ lastEvent' = ToolResultEvent(tc, h, step_count)
             /\ pending' = ToolMessage(tc, h.content)
             /\ session_id' = h.session
             /\ trace' = IF h.invoked THEN Append(trace, ToolEntry(tc)) ELSE trace
    /\ pc' = "append"
    /\ UNCHANGED <<messages, mode, step_count, max_steps, final_response, retval, tool_calls,
                   tc_idx, backend_calls, tool_requests, exit_kind>>
    /\ LoaderKept

\* run_stream resumed after "tool_result"/"tool_error": the tool message is
\* appended; then the next "tool_call" is yielded or the loop continues
StreamAppend ==
    /\ pc = "append" /\ mode = "stream"
    /\ messages' = AppendPending(messages, pending)
    /\ pending' = NoMessage
    /\ IF BatchContinues(tc_idx, Len(tool_calls), pending.content)
       THEN /\ tc_idx' = tc_idx + 1
            /\ StreamYieldToolCall(tool_calls, tc_idx + 1)
            /\ UNCHANGED step_count
       ELSE /\ tc_idx' = 0
            /\ StreamLoopHead
    /\ UNCHANGED <<mode, max_steps, final_response, retval, tool_calls, backend_calls,
                   tool_requests, trace>>
    /\ LoaderKept /\ UNCHANGED session_id

\* run_stream resumed after "complete" or "error": break, the generator ends
StreamFinish ==
    /\ pc \in {"complete", "errored"} /\ mode = "stream"
    /\ pc' = "returned"
    /\ UNCHANGED <<messages, mode, step_count, max_steps, final_response, retval, lastEvent,
                   tool_calls, tc_idx, pending, backend_calls, tool_requests, exit_kind, trace>>
    /\ LoaderKept /\ UNCHANGED session_id

Next ==
    \/ StartRun
    \/ RunThink
    \/ RunStepLimit
    \/ RunTool
    \/ StreamTop
    \/ StreamThink
    \/ StreamAfterThought
    \/ StreamExec
    \/ StreamAppend
    \/ StreamFinish

Spec == Init /\ [][Next]_vars

-----------------------------------------------------------------------------
(* Properties of the orchestration loop, checked under Spec *)

AssistantIdx == { p \in 1..Len(messages) : messages[p].role = "assistant" }
ToolIdx == { p \in 1..Len(messages) : messages[p].role = "tool" }

RECURSIVE RequestsIn(_)
RequestsIn(msgs) ==
    IF msgs = <<>> THEN 0
    ELSE (IF Head(msgs).role = "assistant" THEN Len(Head(msgs).tool_calls) ELSE 0)
         + RequestsIn(Tail(msgs))

RunOver == pc = "returned"

\* no reply of the run came without a tool-call request, and no call failed
EveryReplyAskedForTools ==
    /\ exit_kind # "error"
    /\ \A p \in AssistantIdx : messages[p].tool_calls # <<>>

\* the transcript ends with the tool messages of the last reply's requests
LastBatchResolved ==
    \E p \in AssistantIdx :
        /\ \A q \in AssistantIdx : q <= p
        /\ Len(messages) = p + Len(messages[p].tool_calls)
        /\ \A i \in 1..Len(messages[p].tool_calls) : messages[p + i].role = "tool"

\* tool calls of the current batch that still have to be handled
Remaining == IF pc \in {"tool", "exec", "append"} THEN Len(tool_calls) - tc_idx + 1 ELSE 0

\* a number that every step of a run makes smaller
Rank ==
    (max_steps - step_count) * 100
    + CASE pc = "think"    -> 50
        [] pc = "thought"  -> 40
        [] pc = "tool"     -> 3 * Remaining + 2
        [] pc = "exec"     -> 3 * Remaining + 2
        [] pc = "append"   -> 3 * Remaining + 1
        [] pc = "complete" -> 2
        [] pc = "errored"  -> 2
        [] pc = "top"      -> 1
        [] OTHER           -> 0

C1_State ==
    /\ step_count <= max_steps
    /\ backend_calls = (IF pc = "think" THEN step_count - 1 ELSE step_count)
    /\ pc \notin {"idle", "returned", "raised"} => ENABLED Next
    /\ (RunOver /\ max_steps >= 1 /\ EveryReplyAskedForTools) =>
          /\ exit_kind = "limit"
          /\ backend_calls = max_steps
          /\ step_count = max_steps
          /\ LastBatchResolved
          /\ mode = "run" => retval = final_response

\* C1: a run (run or run_stream) against a backend whose every reply carries
\* a tool-call request ends: the step counter goes up by one with every
\* backend call and never passes max_steps, no state before the return is
\* stuck, every step brings the return nearer, and the run returns after
\* exactly max_steps backend calls with the last batch resolved.
C1_RunEndsAtStepLimit ==
    [](C1_State) /\ [][pc # "idle" => (Rank' < Rank /\ Rank' >= 0)]_vars

C1_Witness ==
    /\ RunOver /\ mode = "stream"
    /\ max_steps = 2 /\ backend_calls = 2
    /\ EveryReplyAskedForTools
    /\ exit_kind = "limit"
    /\ Len(messages) = 7

\* C2: a run from the reset transcript in which the backend answers k times,
\* the last reply without tool calls, ends after k steps and k backend calls
\* with system message, user message, one assistant message per reply and one
\* tool message per request: 2 + k + (n_1 + ... + n_(k-1)) messages.
C2_TranscriptLength ==
    (RunOver /\ exit_kind = "done") =>
        LET k == Cardinality(AssistantIdx)
        IN  /\ k >= 1
            /\ step_count = k
            /\ backend_calls = k
            /\ tool_requests = RequestsIn(messages)
            /\ Cardinality(ToolIdx) = RequestsIn(messages)
            /\ Len(messages) = 2 + k + RequestsIn(messages)
            /\ messages[1] = SystemMessage
            /\ messages[2] = UserMessage

\* two steps, one tool call asked for by a reply without content: 5 messages
C2_Witness ==
    /\ RunOver /\ exit_kind = "done" /\ mode = "run"
    /\ Len(messages) = 5
    /\ messages[3].role = "assistant" /\ messages[3].content = ""
    /\ Len(messages[3].tool_calls) = 1
    /\ messages[4].role = "tool"
    /\ messages[5].role = "assistant" /\ messages[5].tool_calls = <<>>

\* C3: when a reply carries no tool-call requests the run ends and the final
\* answer (what run returns, the final_answer of run_stream's complete event)
\* is the content of that reply.
C3_FinalAnswerIsLastReplyContent ==
    (RunOver /\ exit_kind = "done") =>
        /\ mode = "run" => retval = messages[Len(messages)].content
        /\ mode = "stream" =>
              /\ lastEvent.type = "complete"
              /\ lastEvent.final_answer = messages[Len(messages)].content

\* C4: the tool messages of a batch follow the assistant message in the order
\* of its requests: the i-th message after it is the tool message of the i-th
\* request, and a request has no tool message yet only while it still waits
\* in the batch being dispatched (or run_stream has just yielded the thought,
\* or the entry had no 'function' member and the run ended on it).
C4_ToolMessagesInRequestOrder ==
    \A p \in AssistantIdx :
        \A i \in 1..Len(messages[p].tool_calls) :
            IF p + i <= Len(messages)
            THEN /\ messages[p + i].role = "tool"
                 /\ messages[p + i].tool_call_id = messages[p].tool_calls[i].id
                 /\ messages[p + i].name = messages[p].tool_calls[i].name
            ELSE /\ pc \in {"thought", "tool", "exec", "append", "raised"}
                 /\ messages[p].tool_calls = tool_calls
                 /\ tc_idx <= i

\* a resolved batch of two: the first call failed to parse, the second succeeded
C4_Witness ==
    \E p \in AssistantIdx :
        /\ Len(messages[p].tool_calls) = 2
        /\ p + 2 <= Len(messages)
        /\ messages[p + 1].content = ExceptionResult("JSONDecodeError")
        /\ messages[p + 2].content.kind = "output"
        /\ messages[p + 2].tool_call_id = messages[p].tool_calls[2].id
        /\ pc = "top"

-----------------------------------------------------------------------------
(* Properties of execute_tool, checked under SpecExec *)

CallDone == call.phase = "done"
TemplateOfKnownTool == tool_configs[KnownTool].command_template

\* C5: execute_tool with a name that is not in the registry returns an error
\* result, creates no process (no argument vector is built, nothing is
\* spawned) and leaves the session identifier as it was, whatever the arguments.
C5_UnknownNameIsErrorWithoutProcess ==
    (CallDone /\ call.name \notin DOMAIN tool_configs) =>
        /\ ~call.raised
        /\ call.result.kind = "error"
        /\ ~call.spawned
        /\ call.argv = <<>>
        /\ call.session_after = call.session_before

C5_Witness ==
    /\ CallDone
    /\ call.name \notin DOMAIN tool_configs
    /\ call.args.is_map /\ Len(call.args.items) = 2
    /\ call.session_before = NoSession
    /\ call.result.kind = "error"

HasVisible(t) == \E k \in 1..Len(t) : ~IsSpace(t[k])

\* r is t without its leading and trailing whitespace, stated without Strip
IsStripOf(r, t) ==
    \E i, j \in 0..Len(t) :
        /\ i + j <= Len(t)
        /\ r = SubSeq(t, i + 1, Len(t) - j)
        /\ \A k \in 1..i : IsSpace(t[k])
        /\ \A k \in (Len(t) - j + 1)..Len(t) : IsSpace(t[k])
        /\ r # <<>> /\ ~IsSpace(r[1]) /\ ~IsSpace(r[Len(r)])

\* C6 as stated: a process that ended with non-empty standard output makes
\* execute_tool return exactly that output, unmodified.
C6_StdoutReturnedVerbatim ==
    (CallDone /\ call.spawned /\ call.outcome.stdout # <<>>) =>
        call.result = OutputResult(call.outcome.stdout)

\* C6 amended: a process that ended with standard output holding at least one
\* non-whitespace character makes execute_tool return that output with its
\* leading and trailing whitespace removed and nothing else changed, whatever
\* was written to standard error; output of whitespace only counts as empty
\* and gives an error result.
C6_StdoutReturnedStripped ==
    (CallDone /\ call.spawned) =>
        /\ HasVisible(call.outcome.stdout) =>
              /\ call.result.kind = "output"
              /\ IsStripOf(call.result.debug, call.outcome.stdout)
        /\ ~HasVisible(call.outcome.stdout) => call.result.kind = "error"

C6_Witness ==
    /\ CallDone /\ call.spawned
    /\ call.outcome.stdout = <<"w", "c", "w">>
    /\ call.outcome.stderr # <<>>
    /\ call.result = OutputResult(<<"c">>)

\* C7: a process that ended with empty standard output and non-empty standard
\* error makes execute_tool return an error result whose debug field is the
\* whole standard-error text.
C7_StderrInDebugField ==
    (CallDone /\ call.spawned /\ call.outcome.stdout = <<>> /\ call.outcome.stderr # <<>>) =>
        /\ call.result.kind = "error"
        /\ call.result.has_debug
        /\ call.result.debug = call.outcome.stderr

C7_Witness ==
    /\ CallDone /\ call.spawned
    /\ call.outcome.stdout = <<>>
    /\ call.outcome.stderr = <<"w", "c", "w">>
    /\ call.result.has_debug

\* C8: execute_tool never raises past its boundary: for every name, every
\* argument value (a map or not) and every process outcome it returns a result.
C8_NeverRaises ==
    CallDone => (~call.raised /\ call.result.kind \in {"error", "output"})

\* the tail of a template is a mixture of flag/placeholder pairs and flags
\* without a placeholder: every placeholder directly follows a flag
WellFormedTemplate(parts) ==
    /\ Len(parts) >= 2
    /\ \A j \in 3..Len(parts) :
          /\ parts[j].kind \in {"flag", "ph"}
          /\ parts[j].kind = "ph" => (j > 3 /\ parts[j - 1].kind = "flag")

\* the flag given to the p-th supplied argument in the argument vector
FlagInArgv(argv, p) == argv[2 * p + 1]

\* C9: for every template made of flag/placeholder pairs and flags without a
\* placeholder, an argument whose name has a placeholder in the template is
\* passed with the flag that directly precedes that placeholder.
C9_PlaceholderBoundToPrecedingFlag ==
    (call.phase \in {"waiting", "done"} /\ call.argv # <<>>
        /\ WellFormedTemplate(TemplateOfKnownTool)) =>
        \A p \in 1..Len(call.args.items) :
            \A j \in 4..Len(TemplateOfKnownTool) :
                ( /\ TemplateOfKnownTool[j] = Placeholder(call.args.items[p].key)
                  /\ \A k \in 3..Len(TemplateOfKnownTool) :
                        TemplateOfKnownTool[k] = TemplateOfKnownTool[j] => k = j )
                => FlagInArgv(call.argv, p) = TemplateOfKnownTool[j - 1]

-----------------------------------------------------------------------------
(* Properties of load_all, checked under SpecLoad *)

\* _parse_skill ends normally on this entry
Parses(entry) == entry \in {"no_command", "ok"}

SchemaEntries(name) == { i \in 1..Len(tools_schema) : tools_schema[i].name = name }

\* C10: after load_all on a new SkillLoader, every folder whose SKILL.md was
\* parsed has exactly one schema entry and one configuration, every other
\* folder has neither, whatever the folders around it are and whatever order
\* they were listed in.
C10_OneEntryPerParsedFolder ==
    (loads = 1 /\ fs.exists) =>
        \A f \in Folders :
            /\ Parses(fs.entries[f]) =>
                  (Cardinality(SchemaEntries(f)) = 1 /\ f \in DOMAIN tool_configs)
            /\ ~Parses(fs.entries[f]) =>
                  (SchemaEntries(f) = {} /\ f \notin DOMAIN tool_configs)

\* a folder that fails to parse was listed first and two that parse follow it
C10_Witness ==
    /\ loads = 1 /\ fs.exists
    /\ Len(scanned) = 3
    /\ fs.entries[scanned[1]] = "unreadable"
    /\ Parses(fs.entries[scanned[2]])
    /\ Parses(fs.entries[scanned[3]])
    /\ Len(tools_schema) = 2
    /\ DOMAIN tool_configs = {scanned[2], scanned[3]}

-----------------------------------------------------------------------------
(* SpecConfig: the session directory of config.py while time passes *)

\* a second of wall-clock time passes
Tick ==
    /\ clock < MaxClock
    /\ clock' = clock + 1
    /\ UNCHANGED <<fs, loads, scanned, tools_schema, tool_configs, session_id, call>>
    /\ UNCHANGED agentVars
    /\ UNCHANGED sessionVars

\* the session ids a caller passes to get_session_results_dir
ConfigOverrides == { <<"S", 1>>, <<"S", 2>> }

\* os.path.join(RESULTS_DIR, folder_name)
SessionDir(folder_name) == <<"results", folder_name>>

\* config.get_session_results_dir(session_id): the directory is chosen when
\* there is none or an id is passed, from the id or else from the clock
GetSessionResultsDir(dir, given, clk) ==
    IF dir = NoDir \/ given # NoSession
    THEN SessionDir(IF given # NoSession THEN given ELSE Stamp(clk))
    ELSE dir

\* config.reset_session_dir()
ResetSessionDir == NoDir

InitConfig == Init

DoGetSessionResultsDir ==
    /\ \E given \in ConfigOverrides \cup {NoSession} :
         LET dir == GetSessionResultsDir(current_session_dir, given, clock)
         IN  /\ current_session_dir' = dir
             /\ reset_log' = IF reset_log.state = "reset"
                             THEN [state |-> IF given # NoSession THEN "overridden" ELSE "accessed",
                                   before |-> reset_log.before]
                             ELSE reset_log
    /\ UNCHANGED <<conv, threads>>
    /\ UNCHANGED loaderVars
    /\ UNCHANGED agentVars

DoResetSessionDir ==
    /\ current_session_dir' = ResetSessionDir
    /\ reset_log' = [state |-> "reset", before |-> current_session_dir]
    /\ UNCHANGED <<conv, threads>>
    /\ UNCHANGED loaderVars
    /\ UNCHANGED agentVars

NextConfig == Tick \/ DoGetSessionResultsDir \/ DoResetSessionDir

SpecConfig == InitConfig /\ [][NextConfig]_vars

-----------------------------------------------------------------------------
(* Properties of the session directory, checked under SpecConfig *)

\* the session identifiers of the model
SessionIds == ConfigOverrides \cup ExplicitSessions \cup { Stamp(t) : t \in 0..MaxClock }

\* C11: when a session directory was in use and reset_session_dir is called,
\* the next get_session_results_dir without an id yields a directory (hence a
\* session identifier) different from the one in use before the reset; and
\* distinct session identifiers have distinct directories.
C11_ResetYieldsNewSession ==
    /\ (reset_log.state = "accessed" /\ reset_log.before # NoDir) =>
          current_session_dir # reset_log.before
    /\ \A a, b \in SessionIds : a # b => SessionDir(a) # SessionDir(b)

-----------------------------------------------------------------------------
(* Further properties of the orchestration loop, checked under Spec *)

\* C12: no exception leaves the orchestrator: whatever the backend replies and
\* whatever the tools do, run returns and run_stream ends, and a run is over
\* only because a reply carried no tool call, the backend call failed or the
\* step limit was reached.
C12_NoExceptionLeavesTheRun ==
    /\ pc # "raised"
    /\ RunOver => exit_kind \in {"done", "error", "limit"}

BackendEntries == { k \in 1..Len(trace) : trace[k].op = "backend" }
FailedCalls == { k \in BackendEntries : ~trace[k].ok }
ToolEntries == { k \in 1..Len(trace) : trace[k].op = "execute_tool" }

\* the content of the latest reply of the run that had any, "" when none had
LastContent ==
    LET S == { p \in AssistantIdx : messages[p].content # "" }
    IN  IF S = {} THEN ""
        ELSE messages[CHOOSE p \in S : \A q \in S : q <= p].content

C13_State ==
    FailedCalls # {} =>
        /\ FailedCalls = {Len(trace)}
        /\ exit_kind = "error"
        /\ pc \in {"returned", "errored"}
        /\ step_count = Cardinality(BackendEntries)
        /\ Cardinality(AssistantIdx) = Cardinality(BackendEntries) - 1
        /\ mode = "run" => (pc = "returned" /\ retval = LastContent)
        /\ mode = "stream" => lastEvent = ErrorEvent

\* C13: when a backend call fails, it is the last thing the run does to the
\* outside (no backend call and no tool invocation follows), the run is over
\* with the error exit, the transcript is what it was before the call (no
\* assistant message for the step, nothing removed), run returns the content
\* of the latest earlier reply that had content and run_stream's last event
\* is the error event.
C13_BackendFailureEndsRun ==
    [](C13_State) /\ [][FailedCalls' # {} => messages' = messages]_vars

\* a reply with content and a tool call, its tool run, then the failed call
C13_Witness ==
    /\ RunOver /\ mode = "run" /\ exit_kind = "error"
    /\ Len(trace) = 3 /\ trace[2].op = "execute_tool" /\ ~trace[3].ok
    /\ Len(messages) = 4
    /\ retval = "A"

\* the arguments of request rq are no JSON
Unparseable(rq) == HasFunction(rq) /\ ~ParseJson(rq.arguments).ok

\* the assistant message at p is the last one and its batch is being handled
BatchInProgress(p) ==
    /\ \A q \in AssistantIdx : q <= p
    /\ pc \in {"thought", "tool", "exec", "append"}

\* the number of execute_tool calls made for the request with this id
Invocations(id) == Cardinality({ k \in ToolEntries : trace[k].id = id })

\* what the tool message msg of request rq must be when every call is handled
\* on its own: the parse error for arguments that are no JSON and no
\* execute_tool call; otherwise one execute_tool call and its result (output
\* of the known tool, the error of an unknown name, the error of arguments
\* that are no object)
OwnResult(rq, msg) ==
    /\ msg.role = "tool" /\ msg.tool_call_id = rq.id
    /\ IF Unparseable(rq)
       THEN /\ msg.content = ExceptionResult("JSONDecodeError")
            /\ Invocations(rq.id) = 0
       ELSE /\ Invocations(rq.id) = 1
            /\ msg.content # ExceptionResult("JSONDecodeError")
            /\ (rq.name = KnownTool /\ ParseJson(rq.arguments).value.is_map) =>
                  msg.content.kind = "output"
            /\ rq.name # KnownTool => msg.content.kind = "error"

\* C14: in a batch holding a request whose arguments do not parse, that
\* request gets the parse-error tool message and is not invoked, every other
\* request of the batch (before and after it) is invoked once and gets its
\* own result, and when the batch is done the loop is at its head again (or
\* over because of the step limit or a failed backend call), never cut short.
C14_ParseFailureIsContained ==
    \A p \in AssistantIdx :
        LET tcs == messages[p].tool_calls
        IN  ((\E i \in 1..Len(tcs) : Unparseable(tcs[i]))
                /\ (\A i \in 1..Len(tcs) : HasFunction(tcs[i]))) =>
            /\ \A i \in 1..Len(tcs) :
                  /\ p + i <= Len(messages) => OwnResult(tcs[i], messages[p + i])
                  /\ p + i > Len(messages) => BatchInProgress(p)
            /\ (Len(messages) = p + Len(tcs) /\ ~BatchInProgress(p)) =>
                  \/ pc \in {"top", "think"}
                  \/ pc \in {"returned", "errored"} /\ exit_kind \in {"limit", "error"}

\* the request before the one that does not parse and the request after it
\* were both invoked
C14_Witness ==
    \E p, q \in AssistantIdx :
        /\ p < q /\ Len(messages) = q + 2
        /\ Len(messages[p].tool_calls) = 2 /\ Len(messages[q].tool_calls) = 2
        /\ Unparseable(messages[p].tool_calls[1])
        /\ Invocations(messages[p].tool_calls[2].id) = 1
        /\ messages[p + 2].content.kind = "output"
        /\ Unparseable(messages[q].tool_calls[2])
        /\ Invocations(messages[q].tool_calls[1].id) = 1
        /\ messages[q + 1].content.kind = "output"
        /\ messages[q + 2].content = ExceptionResult("JSONDecodeError")
        /\ mode = "run" /\ pc = "top"

\* the nearest assistant message before the message at t (0 when there is none)
NearestAssistant(t) ==
    LET S == { p \in 1..(t - 1) : messages[p].role = "assistant" }
    IN  IF S = {} THEN 0 ELSE CHOOSE p \in S : \A q \in S : q <= p

\* the tool messages that answer the assistant message at p with this id
Answers(p, id) ==
    { t \in (p + 1)..Len(messages) :
        /\ messages[t].role = "tool"
        /\ messages[t].tool_call_id = id
        /\ NearestAssistant(t) = p }

\* the loop has gone past the batch of the assistant message at p
BatchResolved(p) ==
    /\ ~BatchInProgress(p)
    /\ ~(pc = "raised" /\ \A q \in AssistantIdx : q <= p)

\* C15: every tool message carries the id of a request of the nearest
\* assistant message before it; once the loop has gone past a batch every
\* request of it has exactly one tool message; execute_tool is called at most
\* once for a request and only for requests a reply carried.
C15_OneToolMessagePerRequest ==
    /\ \A t \in ToolIdx :
          LET p == NearestAssistant(t)
          IN  /\ p # 0
              /\ \E i \in 1..Len(messages[p].tool_calls) :
                    messages[p].tool_calls[i].id = messages[t].tool_call_id
    /\ \A p \in AssistantIdx :
          \A i \in 1..Len(messages[p].tool_calls) :
              LET id == messages[p].tool_calls[i].id
                  answered == Cardinality(Answers(p, id))
              IN  /\ answered <= 1
                  /\ BatchResolved(p) => answered = 1
                  /\ Invocations(id) <= 1
    /\ \A k \in ToolEntries :
          \E p \in AssistantIdx : \E i \in 1..Len(messages[p].tool_calls) :
              messages[p].tool_calls[i].id = trace[k].id

\* two batches of two requests each, all four answered and invoked once
C15_Witness ==
    /\ RunOver /\ exit_kind = "limit"
    /\ Cardinality(AssistantIdx) = 2
    /\ Cardinality(ToolIdx) = 4
    /\ Cardinality(ToolEntries) = 4
    /\ \A p \in AssistantIdx : BatchResolved(p) /\ Len(messages[p].tool_calls) = 2

-----------------------------------------------------------------------------
(* SpecSession: the session identifier of the loader over the             *)
(* conversations of one agent, while time passes.  A run reaches the       *)
(* loader only through execute_tool; reset_conversation starts the next    *)
(* conversation.                                                           *)

\* the argument values json.loads gives a run: an object, or something else
RunArgs == { ParseJson(a).value : a \in {"{x:1}", "[1]"} }

InitSession == Init

\* execute_tool(name, args), called for a tool call of the current conversation
SessExecuteTool ==
    /\ \E name \in ToolNames, args \in RunArgs, outcome \in RunOutcomes \cup {SpawnFailure} :
        LET e == ExecuteTool(name, args, outcome, tool_configs, session_id, clock)
        IN  /\ call' = CallRecord("done", name, args, outcome, session_id, e)
            /\ session_id' = e.session
            /\ conv' = IF e.spawned
                       THEN [conv EXCEPT !.injected = @ \cup {e.env_session},
                                         !.spawned_at = @ \cup {clock}]
                       ELSE conv
            /\ tool_configs' = ConfigsAfterCall(tool_configs, name)
    /\ UNCHANGED <<fs, loads, scanned, tools_schema, clock>>
    /\ UNCHANGED <<current_session_dir, reset_log, threads>>
    /\ UNCHANGED agentVars

\* set_session_id(session_id), called by the owner of the agent between runs
SessSetSessionId ==
    /\ \E given \in ExplicitSessions \cup {NoSession} :
        session_id' = SetSessionId(given, clock)
    /\ conv' = [conv EXCEPT !.deliberate = TRUE, !.injected = {}, !.spawned_at = {}]
    /\ UNCHANGED <<fs, loads, scanned, tools_schema, tool_configs, clock, call>>
    /\ UNCHANGED <<current_session_dir, reset_log, threads>>
    /\ UNCHANGED agentVars

\* DrKGCAgent.reset_conversation(): the transcript is reset; nothing else is
\* touched.  The next conversation begins
SessResetConversation ==
    /\ conv.number < MaxConvs
    /\ messages' = ResetConversation
    /\ conv' = [conv EXCEPT !.number = @ + 1, !.injected = {}, !.spawned_at = {},
                            !.earlier = @ \cup conv.injected]
    /\ UNCHANGED <<mode, pc, step_count, max_steps, final_response, retval, lastEvent,
                   tool_calls, tc_idx, pending, backend_calls, tool_requests, exit_kind, trace>>
    /\ UNCHANGED loaderVars
    /\ UNCHANGED <<current_session_dir, reset_log, threads>>

NextSession == Tick \/ SessExecuteTool \/ SessSetSessionId \/ SessResetConversation

SpecSession == InitSession /\ [][NextSession]_vars

-----------------------------------------------------------------------------
(* Properties of the session identifier, checked under SpecSession *)

\* C16: the processes spawned for one conversation since the identifier was
\* last set from outside (hence those of one run) were all given the same
\* session identifier, it is not empty, it is the one the loader holds, and
\* an invocation that finds an identifier leaves it as it is, however much
\* time passes between the invocations.
C16_OneSessionIdPerRun ==
    /\ Cardinality(conv.injected) <= 1
    /\ NoSession \notin conv.injected
    /\ conv.injected # {} => conv.injected = {session_id}
    /\ (call.phase = "done" /\ call.session_before # NoSession) =>
          call.session_after = call.session_before
    /\ (call.phase = "done" /\ call.spawned) => call.env_session = call.session_after

\* processes were spawned at seconds 0, 1 and 2 of one conversation and the
\* identifier synthesized at second 0 was given to all of them
C16_Witness ==
    /\ conv.spawned_at = {0, 1, 2}
    /\ conv.injected = {Stamp(0)}
    /\ ~conv.deliberate
    /\ call.spawned /\ call.session_before = Stamp(0) /\ call.env_session = Stamp(0)

\* C17: after reset_conversation, as long as set_session_id was never called,
\* the processes spawned for the new conversation are given a session
\* identifier that no earlier conversation of the agent used.
C17_NewConversationNewSession ==
    (conv.number > 1 /\ ~conv.deliberate) => conv.injected \cap conv.earlier = {}

\* C18: in run_stream, when the consumer holds a start, tool_result,
\* tool_error or complete event, the message the event describes is already
\* the last message of the transcript.
C18_EventAfterAppend ==
    mode = "stream" =>
        LET last == messages[Len(messages)]
        IN  /\ (pc = "top" /\ lastEvent.type = "start") => last = UserMessage
            /\ pc = "append" =>
                  /\ lastEvent.type \in {"tool_result", "tool_error"}
                  /\ last.role = "tool"
                  /\ last.content = lastEvent.result
            /\ pc = "complete" =>
                  /\ lastEvent.type = "complete"
                  /\ last.role = "assistant"
                  /\ last.content = lastEvent.final_answer

-----------------------------------------------------------------------------
(* SpecCancel: a run during which somebody asks for it to be cancelled.    *)
(* run and run_stream take no cancellation argument and read no flag: the  *)
(* request reaches nothing in the loop and is only written to the trace.   *)

RunInProgress == pc \notin {"idle", "returned", "raised"}

Cancelled == \E k \in 1..Len(trace) : trace[k].op = "cancel"

RequestCancel ==
    /\ RunInProgress
    /\ ~Cancelled
    /\ trace' = Append(trace, CancelEntry)
    /\ UNCHANGED <<messages, mode, pc, step_count, max_steps, final_response, retval, lastEvent,
                   tool_calls, tc_idx, pending, backend_calls, tool_requests, exit_kind>>
    /\ LoaderKept /\ UNCHANGED session_id

NextCancel == Next \/ RequestCancel

SpecCancel == Init /\ [][NextCancel]_vars

\* C19: after a cancellation request was made during a run the backend is
\* not called again (the iteration in progress may still finish its tool
\* calls).
C19_CancellationStopsTheLoop ==
    \A k \in 1..Len(trace) :
        trace[k].op = "cancel" => \A j \in (k + 1)..Len(trace) : trace[j].op # "backend"

-----------------------------------------------------------------------------
(* Further properties of load_all, checked under SpecLoad *)

\* C20: after any number of load_all calls on one SkillLoader no two entries
\* of tools_schema carry the same name, and the names of tools_schema are the
\* keys of tool_configs.
C20_SchemaNamesUnique ==
    /\ \A i, j \in 1..Len(tools_schema) :
          tools_schema[i].name = tools_schema[j].name => i = j
    /\ { tools_schema[i].name : i \in 1..Len(tools_schema) } = DOMAIN tool_configs

-----------------------------------------------------------------------------
(* Further properties of execute_tool, checked under SpecExec *)

\* the argument vector was built and handed to subprocess.run
ArgvBuilt == call.phase \in {"waiting", "done"} /\ call.argv # <<>>

\* the flags of a template that no placeholder follows
StaticFlags(parts) ==
    { j \in 3..Len(parts) :
        /\ parts[j].kind = "flag"
        /\ (j = Len(parts) \/ parts[j + 1].kind # "ph") }

\* C21: a flag of the template that is not followed by a placeholder is in
\* the argument vector of every invocation that gets as far as creating the
\* process, whatever the arguments are.
C21_StaticFlagsPassedThrough ==
    ArgvBuilt =>
        \A j \in StaticFlags(TemplateOfKnownTool) :
            \E k \in 1..Len(call.argv) : call.argv[k] = TemplateOfKnownTool[j]

\* the flags that directly precede a placeholder for this parameter
BoundFlags(parts, key) ==
    { parts[j - 1] : j \in { i \in 4..Len(parts) :
                               parts[i] = Placeholder(key) /\ parts[i - 1].kind = "flag" } }

\* C22: for every template made of flag/placeholder pairs and flags without
\* a placeholder, the argument vector of an invocation that creates a process
\* is the interpreter and the template's script path, then for each supplied
\* argument in the order of the map its flag (a flag that precedes a
\* placeholder for it, or --<name> when the template has none) and one value
\* token, a composite value being one JSON token.
C22_ArgvIsFlagValuePairs ==
    (ArgvBuilt /\ WellFormedTemplate(TemplateOfKnownTool)) =>
        LET items == call.args.items
        IN  /\ Len(call.argv) = 2 + 2 * Len(items)
            /\ call.argv[1] = Word("sys.executable")
            /\ call.argv[2] = TemplateOfKnownTool[2]
            /\ \A p \in 1..Len(items) :
                  LET bound == BoundFlags(TemplateOfKnownTool, items[p].key)
                  IN  /\ IF bound = {}
                         THEN FlagInArgv(call.argv, p) = Flag(items[p].key)
                         ELSE FlagInArgv(call.argv, p) \in bound
                      /\ call.argv[2 * p + 2].kind = "value"
                      /\ call.argv[2 * p + 2].v = items[p].val.v
                      /\ call.argv[2 * p + 2].enc = (IF items[p].val.composite THEN "json" ELSE "str")

\* C23: every invocation of a capability whose template has fewer than two
\* tokens (the empty template of a descriptor without Command section among
\* them) returns an error result, creates no process and leaves the session
\* identifier as it was.
C23_ShortTemplateIsErrorResult ==
    (CallDone /\ call.name \in DOMAIN tool_configs
        /\ Len(tool_configs[call.name].command_template) < 2) =>
        /\ ~call.raised
        /\ call.result.kind = "error"
        /\ ~call.spawned
        /\ call.argv = <<>>
        /\ call.session_after = call.session_before

-----------------------------------------------------------------------------
(* Properties of the order of steps, checked under Spec *)

\* every request of the assistant message at p has its tool message, in place
BatchAnswered(p) ==
    \A i \in 1..Len(messages[p].tool_calls) :
        /\ p + i <= Len(messages)
        /\ messages[p + i].role = "tool"
        /\ messages[p + i].tool_call_id = messages[p].tool_calls[i].id

\* the run is where its next step calls the backend or ends at the step limit
AtBackendCall == (mode = "run" /\ pc = "top") \/ (mode = "stream" /\ pc = "think")

\* C24: whenever the run is about to call the backend, every assistant message
\* of the transcript that carries requests is directly followed by the tool
\* messages of all of them; and while tool calls are dispatched, the reply
\* that asked for them is already the last assistant message of the transcript.
C24_NoBackendCallWhileBatchOpen ==
    /\ AtBackendCall => \A p \in AssistantIdx : BatchAnswered(p)
    /\ pc \in {"tool", "exec", "append"} =>
          \E p \in AssistantIdx :
              /\ \A q \in AssistantIdx : q <= p
              /\ messages[p].tool_calls = tool_calls
              /\ Len(messages) >= p

\* run_stream is about to make its second backend call after a batch of two
C24_Witness ==
    /\ mode = "stream" /\ pc = "think" /\ step_count = 2
    /\ Len(messages) = 5
    /\ Len(messages[3].tool_calls) = 2
    /\ BatchAnswered(3)

-----------------------------------------------------------------------------
(* SpecRuns: a second run on the same agent, without reset_conversation    *)
(* in between.  Only a first run of at most one step is followed by a      *)
(* second one, and the second one has at most one step.                    *)

RestartSteps == {0, 1}

UserIdx == { p \in 1..Len(messages) : messages[p].role = "user" }

\* run or run_stream is called again after the first call has returned or
\* raised: the locals are new, the transcript and the loader are the agent's
RestartRun ==
    /\ pc \in {"returned", "raised"}
    /\ Cardinality(UserIdx) = 1
    /\ max_steps \in RestartSteps
    /\ \E md \in {"run", "stream"}, ms \in RestartSteps :
         /\ mode' = md
         /\ max_steps' = ms
         /\ lastEvent' = IF md = "stream" THEN StartEvent ELSE NoEvent
    /\ messages' = StartTranscript(messages)
    /\ step_count' = 0
    /\ final_response' = ""
    /\ pc' = "top"
    /\ retval' = NoValue
    /\ tool_calls' = <<>>
    /\ tc_idx' = 0
    /\ pending' = NoMessage
    /\ backend_calls' = 0
    /\ tool_requests' = 0
    /\ exit_kind' = "none"
    /\ trace' = <<>>
    /\ LoaderKept /\ UNCHANGED session_id

NextRuns == Next \/ RestartRun

SpecRuns == Init /\ [][NextRuns]_vars

\* s is an initial part of t
IsPrefix(s, t) == Len(s) <= Len(t) /\ SubSeq(t, 1, Len(s)) = s

\* C25: over the runs of an agent on which reset_conversation is not called,
\* every step leaves the transcript as it was or adds messages at its end
\* (nothing is removed, moved or rewritten, and the second run goes on from
\* the transcript the first one left), and the transcript always starts with
\* the system message and holds no other system message.
C25_TranscriptAppendOnly ==
    /\ [](/\ messages[1] = SystemMessage
          /\ \A p \in 2..Len(messages) : messages[p].role # "system")
    /\ [][IsPrefix(messages, messages')]_vars

\* the second run has ended; the first run's reply, its tool message and the
\* user message of the second run are all in the transcript
C25_Witness ==
    /\ Cardinality(UserIdx) = 2
    /\ pc = "returned" /\ exit_kind = "limit"
    /\ Len(messages) = 7
    /\ messages[2].role = "user"
    /\ messages[3].role = "assistant" /\ messages[4].role = "tool"
    /\ messages[5].role = "user"
    /\ messages[6].role = "assistant" /\ messages[7].role = "tool"

-----------------------------------------------------------------------------
(* What execute_tool leaves alone, checked under SpecExec *)

\* C26: no step of execute_tool (its start, and its end when the process
\* ends) changes tools_schema, tool_configs or the transcript, whether the
\* call returns output, returns an error or raises.
C26_ExecuteToolKeepsRegistryAndTranscript ==
    [][call' # call =>
          (tools_schema' = tools_schema /\ tool_configs' = tool_configs /\ messages' = messages)]_vars

\* a call that created a process and ended in an error result; the registry
\* is the one the loader started with
C26_Witness ==
    /\ CallDone /\ call.spawned /\ call.result.kind = "error"
    /\ call.session_before # NoSession
    /\ Len(call.args.items) = 2
    /\ tools_schema = <<ToolDef(KnownTool)>>
    /\ DOMAIN tool_configs = {KnownTool}
    /\ messages = ResetConversation

-----------------------------------------------------------------------------
(* SpecRace: two execute_tool calls at once on one SkillLoader whose        *)
(* session identifier is not set.  The test of self.session_id, its        *)
(* assignment and its copy into the child environment are three            *)
(* statements without a lock; the calls interleave between them.           *)

ThreadsKept ==
    /\ UNCHANGED <<fs, loads, scanned, tools_schema, tool_configs, call>>
    /\ UNCHANGED <<current_session_dir, reset_log, conv>>
    /\ UNCHANGED agentVars

\* if not self.session_id
ThreadCheck(t) ==
    /\ threads.at[t] = "start"
    /\ threads' = [threads EXCEPT !.at[t] = IF session_id = NoSession THEN "assign" ELSE "inject"]
    /\ UNCHANGED <<session_id, clock>>
    /\ ThreadsKept

\* self.session_id = datetime.now().strftime(...)
ThreadAssign(t) ==
    /\ threads.at[t] = "assign"
    /\ session_id' = Stamp(clock)
    /\ threads' = [threads EXCEPT !.at[t] = "inject", !.writes = @ + 1]
    /\ UNCHANGED clock
    /\ ThreadsKept

\* env['AITARGET_SESSION_ID'] = self.session_id, and subprocess.run(..., env=env)
ThreadInject(t) ==
    /\ threads.at[t] = "inject"
    /\ threads' = [threads EXCEPT !.at[t] = "spawned", !.env[t] = session_id]
    /\ UNCHANGED <<session_id, clock>>
    /\ ThreadsKept

NextRace ==
    \/ Tick
    \/ \E t \in Callers : ThreadCheck(t)
    \/ \E t \in Callers : ThreadAssign(t)
    \/ \E t \in Callers : ThreadInject(t)

SpecRace == Init /\ [][NextRace]_vars

\* C27: when two calls go through the loader at once and no identifier is
\* set, self.session_id is assigned at most once, and every process created
\* by either call is given the identifier that the loader holds afterwards.
C27_SessionSetOnceUnderConcurrency ==
    /\ threads.writes <= 1
    /\ \A t \in Callers : threads.at[t] = "spawned" => threads.env[t] = session_id

-----------------------------------------------------------------------------
(* Properties of the events of run_stream, checked under Spec *)

\* C28: when run_stream has been consumed to its end, the last event it
\* yielded is a terminal one (complete or error), whichever way the loop
\* ended; and after a tool_call event the next event is the tool_result or
\* tool_error of the same tool.
C28_StreamEndsWithTerminalEvent ==
    mode = "stream" =>
        /\ RunOver => lastEvent.type \in {"complete", "error"}
        /\ pc = "exec" => lastEvent.type = "tool_call"
        /\ pc = "append" =>
              /\ lastEvent.type \in {"tool_result", "tool_error"}
              /\ lastEvent.tool = NextToolCall(tool_calls, tc_idx).name

-----------------------------------------------------------------------------
(* run and run_stream compared, checked under Spec *)

\* what the backend returned to the calls of this run, in order
RepliesGiven ==
    LET calls == SelectSeq(trace, LAMBDA e : e.op = "backend")
    IN  [k \in 1..Len(calls) |-> calls[k].reply]

\* what run does with the replies this run was given
AsRun == RunLoop(StartTranscript(ResetConversation), RepliesGiven, 0, max_steps, tool_configs)

\* C29: a run that has returned, be it run or a run_stream consumed to its
\* end, has left the transcript, and has made the number of backend calls and
\* of execute_tool calls, that run's loop gives for the same max_steps, the
\* same replies and the same tool outcomes: the two agree on all three.
C29_StreamMatchesRun ==
    RunOver =>
        LET replay == AsRun
        IN  /\ messages = replay.messages
            /\ backend_calls = replay.calls
            /\ Cardinality(ToolEntries) = replay.tools

\* run_stream ended at the step limit after two batches, one call of which
\* failed to parse, and after a reply with content
C29_Witness ==
    /\ RunOver /\ mode = "stream" /\ exit_kind = "limit"
    /\ max_steps = 2 /\ backend_calls = 2
    /\ Len(messages) = 8
    /\ Cardinality(ToolEntries) = 3
    /\ messages[3].content = "A"
    /\ messages = AsRun.messages

-----------------------------------------------------------------------------
(* SpecExit: execute_tool on the capability of a constructed agent, the    *)
(* process ending with any output and any exit status                      *)

\* subprocess.run returns, the process having ended with some exit status,
\* or raises, and execute_tool ends
ProcessExits ==
    /\ call.phase = "waiting"
    /\ \E o \in Outcomes, status \in ExitStatuses :
        LET outcome == IF o.exc THEN o ELSE WithStatus(o, status)
            e == ExecuteTool(call.name, call.args, outcome, tool_configs,
                             call.session_before, clock)
        IN  /\ call' = CallRecord("done", call.name, call.args, outcome, call.session_before, e)
            /\ session_id' = e.session
    /\ UNCHANGED <<fs, loads, scanned, tools_schema, tool_configs, clock>>
    /\ UNCHANGED agentVars
    /\ UNCHANGED sessionVars

NextExit == DoExecuteTool \/ ProcessExits

SpecExit == Init /\ [][NextExit]_vars

\* C30 as stated: a process that exits with a status other than 0 and
\* non-empty standard output makes execute_tool return output, and a process
\* that exits with status 0 and empty standard output makes it return an
\* error result.
C30_NonEmptyStdoutIsPayload ==
    (CallDone /\ call.spawned) =>
        /\ (call.outcome.returncode # 0 /\ call.outcome.stdout # <<>>) =>
              call.result.kind = "output"
        /\ (call.outcome.returncode = 0 /\ call.outcome.stdout = <<>>) =>
              call.result.kind = "error"

\* C30 amended: the result depends on the captured output only, whatever
\* the exit status: standard output holding at least one non-whitespace
\* character is returned with its leading and trailing whitespace removed,
\* also when the status is not 0; standard output that is empty or
\* whitespace only gives an error result, also when the status is 0, and the
\* error carries standard error as debug exactly when there is any.
C30_ResultIgnoresExitStatus ==
    (CallDone /\ call.spawned) =>
        /\ HasVisible(call.outcome.stdout) =>
              /\ call.result.kind = "output"
              /\ IsStripOf(call.result.debug, call.outcome.stdout)
        /\ ~HasVisible(call.outcome.stdout) =>
              /\ call.result.kind = "error"
              /\ call.result.has_debug = (call.outcome.stderr # <<>>)
              /\ call.result.has_debug => call.result.debug = call.outcome.stderr

\* a process that failed (status 1, something on standard error) and still
\* printed output: the output is the result
C30_Witness ==
    /\ CallDone /\ call.spawned
    /\ call.outcome.returncode = 1
    /\ call.outcome.stderr # <<>>
    /\ HasVisible(call.outcome.stdout)
    /\ call.result.kind = "output"

====
